---- MODULE Spec2Model ----
(***************************************************************************)
(* Builder/handle protocol of the typegraph Rust front-end: t.rs (type     *)
(* builders, coercions, transforms) and runtimes/http.rs (HTTP routes).    *)
(* The engine behind wasm::with_core / wasm::with_runtimes is an external  *)
(* request/response service; every call across that boundary is appended  *)
(* to the log `calls` together with the engine's answer.                   *)
(***************************************************************************)
EXTENDS Integers, Sequences, FiniteSets, TLC

VARIABLES
    calls,  \* the engine calls issued so far, each with the engine's answer
    cur,    \* the value the caller's fluent chain currently holds
    kept,   \* the caller's copy of the TypeDef it last transformed (TypeDef: Copy)
    last,   \* the last operation: its receiver, arguments, result, prior log
    hist,   \* the successful steps of the chain in progress (props, transforms)
    raw     \* whether the caller ever supplied a hand-made TypeId

vars == <<calls, cur, kept, last, hist, raw>>

\* ------------------------------------------------------------------ bounds
\* A session issues at most MaxCalls engine calls.
MaxCalls == 3
\* Most attribute pairs set on one reference builder.
MaxAttrs == 1
\* An HTTP session (runtime, route, materializer, function) issues at most
\* MaxHttpCalls engine calls.
MaxHttpCalls == 5
\* Most setter calls on one route builder.
MaxSetters == 3
\* Longest variants list handed to union / either.
MaxVariants == 2
\* Most props pushed on one struct builder.
MaxProps == 2
\* Most named / id / config calls on one builder.
MaxBaseCalls == 3

\* ------------------------------------------------- Option<T> and Result<T>
None == <<>>
Some(x) == <<x>>

Ok(v) == [k |-> "Ok", v |-> v]
Err(e) == [k |-> "Err", e |-> e]

\* The value the caller holds before the first operation.
Nil == [k |-> "Nil"]

\* ------------------------------------------------------- the engine boundary
\* An engine call either fails or answers a handle that no earlier call of the
\* session answered.  `fail` is the set of call numbers the engine rejects.
EngineError == "EngineError"

Answer(log, fail) ==
    IF (Len(log) + 1) \in fail
    THEN [ok |-> FALSE, err |-> EngineError]
    ELSE [ok |-> TRUE, id |-> Len(log) + 1]

\* wasm::with_core(|c, s| c.call_xxx(s, ...)): one request, one answer.
with_core(log, fail, req) ==
    LET ans == Answer(log, fail)
    IN  [res |-> ans, log |-> Append(log, [req |-> req, ans |-> ans])]

\* wasm::with_runtimes(|r, s| r.call_xxx(s, ...)): same boundary, runtimes side.
with_runtimes(log, fail, req) ==
    LET ans == Answer(log, fail)
    IN  [res |-> ans, log |-> Append(log, [req |-> req, ans |-> ans])]

\* ------------------------------------------------------------------ TypeDef
TypeDef(id) == [k |-> "TypeDef", id |-> id]

\* A raw handle (wasm::core::TypeId) and a textual name (&str) as buildables.
TypeId(id) == [k |-> "TypeId", id |-> id]
Str(s) == [k |-> "str", s |-> s]

\* Result<TypeDef> made of an engine answer r: the `?` on the answer, then
\* Ok(TypeDef { id }).
Rewrap(r) ==
    [res |-> IF r.res.ok THEN Ok(TypeDef(r.res.id)) ELSE Err(r.res.err),
     log |-> r.log]

\* Ok(TypeDef { id: wasm::with_core(...)? })
Allocate(log, fail, req) == Rewrap(with_core(log, fail, req))

\* ----------------------------------------------------------- default payloads
TypeBaseDefault == [name |-> None, runtime_config |-> None, as_id |-> FALSE]

TypeIntegerDefault ==
    [min |-> None, max |-> None, exclusive_minimum |-> None,
     exclusive_maximum |-> None, multiple_of |-> None, enumeration |-> None]

TypeFloatDefault ==
    [min |-> None, max |-> None, exclusive_minimum |-> None,
     exclusive_maximum |-> None, multiple_of |-> None, enumeration |-> None]

TypeStringDefault ==
    [min |-> None, max |-> None, format |-> None, pattern |-> None,
     enumeration |-> None]

TypeStructDefault ==
    [props |-> <<>>, additional_props |-> FALSE, min |-> None, max |-> None,
     enumeration |-> None]

\* ------------------------------------------------------------ scalar builders
boolean == [k |-> "BooleanBuilder", base |-> TypeBaseDefault]
integer == [k |-> "IntegerBuilder", data |-> TypeIntegerDefault, base |-> TypeBaseDefault]
float == [k |-> "FloatBuilder", base |-> TypeBaseDefault, data |-> TypeFloatDefault]
string == [k |-> "StringBuilder", base |-> TypeBaseDefault, data |-> TypeStringDefault]

\* BaseBuilder::named: name.to_string().into() is Some(name)
named(self, name) == [self EXCEPT !.base.name = Some(name)]

\* BaseBuilder::id
id(self) == [self EXCEPT !.base.as_id = TRUE]

\* utils::json_stringify on a string or a boolean: the JSON text of the value
json_stringify(value) ==
    CASE value.t = "str" -> "\"" \o value.s \o "\""
      [] value.t = "bool" -> IF value.b THEN "true" ELSE "false"

\* config that keeps one pair per key, the last one (map semantics)
config_last_wins(self, key, value) ==
    [self EXCEPT !.base.runtime_config =
        Some(Append(SelectSeq(IF @ = None THEN <<>> ELSE @[1],
                              LAMBDA p : p[1] # key),
                    <<key, json_stringify(value)>>))]

\* BaseBuilder::config: runtime_config.get_or_insert_with(Vec::new).push(..)
config(self, key, value) ==
    [self EXCEPT !.base.runtime_config =
        Some(Append(IF @ = None THEN <<>> ELSE @[1],
                    <<key, json_stringify(value)>>))]

\* StringBuilder::format
format(self, f) == [self EXCEPT !.data.format = Some(f)]

uuid == format(id(string), "uuid")

\* IntegerBuilder::min / max
min(self, n) == [self EXCEPT !.data.min = Some(n)]
max(self, n) == [self EXCEPT !.data.max = Some(n)]

\* r#ref and RefBuilder::set
ref(name) == [k |-> "RefBuilder", name |-> name, attributes |-> <<>>]
ref_set(self, attr, value) ==
    [self EXCEPT !.attributes = Append(@, <<attr, value>>)]

struct == [k |-> "StructBuilder", base |-> TypeBaseDefault, data |-> TypeStructDefault]

\* ------------------------------------------------------- TypeDef transforms
\* Each transform is `self.id = with_core(...)?; Ok(self)`.

\* rename that issues the call but hands back the receiver's old identifier
TypeDef_rename_stale(self, name, log, fail) ==
    LET r == with_core(log, fail,
                       [fn |-> "rename_type", id |-> self.id, name |-> name])
    IN  [res |-> IF r.res.ok THEN Ok(self) ELSE Err(r.res.err), log |-> r.log]

TypeDef_rename(self, name, log, fail) ==
    Rewrap(with_core(log, fail,
                     [fn |-> "rename_type", id |-> self.id, name |-> name]))

TypeDef_with_policy(self, chain, log, fail) ==
    Rewrap(with_core(log, fail,
                     [fn |-> "with_policy", id |-> self.id, chain |-> chain]))

TypeDef_with_injection(self, injection, log, fail) ==
    Rewrap(with_core(log, fail,
                     [fn |-> "with_injection", id |-> self.id,
                      injection |-> injection]))

\* injections::serialize_injection(source, Option<value>)
serialize_injection(source, value) == [source |-> source, data |-> value]

TypeDef_set(self, value, log, fail) ==
    TypeDef_with_injection(self, serialize_injection("static", Some(value)), log, fail)
TypeDef_inject(self, value, log, fail) ==
    TypeDef_with_injection(self, serialize_injection("dynamic", Some(value)), log, fail)
TypeDef_from_context(self, value, log, fail) ==
    TypeDef_with_injection(self, serialize_injection("context", Some(value)), log, fail)
TypeDef_from_secret(self, value, log, fail) ==
    TypeDef_with_injection(self, serialize_injection("secret", Some(value)), log, fail)
TypeDef_from_random(self, log, fail) ==
    TypeDef_with_injection(self, serialize_injection("random", None), log, fail)

\* ------------------------------------------------------- trait TypeBuilder
RECURSIVE build(_, _, _)

\* Result::map(|ty| ty.id) on the outcome r of a build
map_id(r) ==
    [res |-> IF r.res.k = "Ok" THEN [ok |-> TRUE, id |-> r.res.v.id]
             ELSE [ok |-> FALSE, err |-> r.res.e],
     log |-> r.log]

\* self.build().map(|ty| ty.id)
into_id(self, log, fail) == map_id(build(self, log, fail))

\* self.build()?.rename(name) and the other provided methods: r is the
\* outcome of self.build(), and `?` returns its error.
rename_built(r, name, fail) ==
    IF r.res.k = "Ok" THEN TypeDef_rename(r.res.v, name, r.log, fail) ELSE r

rename(self, name, log, fail) == rename_built(build(self, log, fail), name, fail)

with_policy_built(r, chain, fail) ==
    IF r.res.k = "Ok" THEN TypeDef_with_policy(r.res.v, chain, r.log, fail) ELSE r

with_policy(self, chain, log, fail) ==
    with_policy_built(build(self, log, fail), chain, fail)

with_injection_built(r, injection, fail) ==
    IF r.res.k = "Ok" THEN TypeDef_with_injection(r.res.v, injection, r.log, fail)
    ELSE r

with_injection(self, injection, log, fail) ==
    with_injection_built(build(self, log, fail), injection, fail)

set(self, value, log, fail) ==
    with_injection(self, serialize_injection("static", Some(value)), log, fail)
inject(self, value, log, fail) ==
    with_injection(self, serialize_injection("dynamic", Some(value)), log, fail)
from_context(self, value, log, fail) ==
    with_injection(self, serialize_injection("context", Some(value)), log, fail)
from_secret(self, value, log, fail) ==
    with_injection(self, serialize_injection("secret", Some(value)), log, fail)
from_random(self, log, fail) ==
    with_injection(self, serialize_injection("random", None), log, fail)

\* ------------------------------------------------------ composite builders
\* Each constructor finalizes its children with into_id()?; the operators
\* named *_of take the outcome r of that finalization.
\* `?` on a Result<TypeId> that is an error: the error is returned.
Propagate(r) == [res |-> Err(r.res.err), log |-> r.log]

optional_of(r) ==
    IF r.res.ok
    THEN [res |-> Ok([k |-> "OptionalBuilder", base |-> TypeBaseDefault,
                      data |-> [of |-> r.res.id, default_item |-> None]]),
          log |-> r.log]
    ELSE Propagate(r)

optional(ty, log, fail) == optional_of(into_id(ty, log, fail))

list_of(r) ==
    IF r.res.ok
    THEN [res |-> Ok([k |-> "ListBuilder", base |-> TypeBaseDefault,
                      data |-> [of |-> r.res.id, min |-> None, max |-> None,
                                unique_items |-> None]]),
          log |-> r.log]
    ELSE Propagate(r)

\* list that leaves `of` at TypeList::default(): u32::MAX, the all-ones word,
\* written -1 here
list_default_of(ty, log, fail) ==
    LET r == list_of(into_id(ty, log, fail))
    IN  IF r.res.k = "Ok" THEN [r EXCEPT !.res.v.data.of = -1] ELSE r

\* list that allocates the list node as soon as the child is finalized
list_eager(ty, log, fail) ==
    LET r == list_of(into_id(ty, log, fail))
    IN  IF r.res.k = "Ok"
        THEN Allocate(r.log, fail,
                      [fn |-> "listb", base |-> r.res.v.base, data |-> r.res.v.data])
        ELSE r

list(ty, log, fail) == list_of(into_id(ty, log, fail))

\* variants.into_iter().map(|ty| ty.into_id()).collect::<Result<_>>():
\* the iterator is lazy and stops at the first Err.  collect_next takes the
\* outcome r of the head's into_id().
RECURSIVE collect(_, _, _, _)
collect_next(r, variants, acc, fail) ==
    IF r.res.ok
    THEN collect(Tail(variants), Append(acc, r.res.id), r.log, fail)
    ELSE r

collect(variants, acc, log, fail) ==
    IF variants = <<>>
    THEN [res |-> [ok |-> TRUE, ids |-> acc], log |-> log]
    ELSE collect_next(into_id(Head(variants), log, fail), variants, acc, fail)

union_of(r) ==
    IF r.res.ok
    THEN [res |-> Ok([k |-> "UnionBuilder", base |-> TypeBaseDefault,
                      data |-> [variants |-> r.res.ids]]),
          log |-> r.log]
    ELSE Propagate(r)

\* union that refuses an empty variants list
union_nonempty(variants, log, fail) ==
    IF variants = <<>> THEN [res |-> Err("MalformedConfiguration"), log |-> log]
    ELSE union_of(collect(variants, <<>>, log, fail))

union(variants, log, fail) == union_of(collect(variants, <<>>, log, fail))

either_of(r) ==
    IF r.res.ok
    THEN [res |-> Ok([k |-> "EitherBuilder", base |-> TypeBaseDefault,
                      data |-> [variants |-> r.res.ids]]),
          log |-> r.log]
    ELSE Propagate(r)

either(variants, log, fail) == either_of(collect(variants, <<>>, log, fail))

\* UnionBuilder::add
add_of(self, r) ==
    IF r.res.ok
    THEN [res |-> Ok([self EXCEPT !.data.variants = Append(@, r.res.id)]),
          log |-> r.log]
    ELSE Propagate(r)

add(self, ty, log, fail) == add_of(self, into_id(ty, log, fail))

\* StructBuilder::prop
prop_of(self, name, r) ==
    IF r.res.ok
    THEN [res |-> Ok([self EXCEPT !.data.props = Append(@, <<name, r.res.id>>)]),
          log |-> r.log]
    ELSE Propagate(r)

\* prop that overwrites an earlier prop of the same name (map semantics)
prop_overwrite(self, name, ty, log, fail) ==
    prop_of([self EXCEPT !.data.props = SelectSeq(@, LAMBDA p : p[1] # name)],
            name, into_id(ty, log, fail))

prop(self, name, ty, log, fail) == prop_of(self, name, into_id(ty, log, fail))

\* func: inp.into_id()? is evaluated before out.into_id()?.  func_of takes
\* the outcomes i and o of the two, func_out the outcome i of the first.
func_of(i, o, mat) ==
    IF o.res.ok
    THEN [res |-> Ok([k |-> "FuncBuilder",
                      data |-> [inp |-> i.res.id, out |-> o.res.id,
                                parameter_transform |-> None,
                                mat |-> mat, rate_calls |-> FALSE,
                                rate_weight |-> None]]),
          log |-> o.log]
    ELSE Propagate(o)

func_out(i, out, mat, fail) ==
    IF i.res.ok THEN func_of(i, into_id(out, i.log, fail), mat) ELSE Propagate(i)

\* func that finalizes both children before looking at either outcome
func_eager(inp, out, mat, log, fail) ==
    LET i == into_id(inp, log, fail)
        o == into_id(out, i.log, fail)
    IN  IF i.res.ok THEN func_of(i, o, mat)
        ELSE [res |-> Err(i.res.err), log |-> o.log]

func(inp, out, mat, log, fail) == func_out(into_id(inp, log, fail), out, mat, fail)

\* ---------------------------------------------------- impl TypeBuilder for ...
build_TypeId(self, log, fail) == [res |-> Ok(TypeDef(self.id)), log |-> log]

\* a name finalized as a reference that carries the name as an attribute too
build_str_attr(self, log, fail) ==
    build(ref_set(ref(self.s), "name", self.s), log, fail)

build_str(self, log, fail) == build(ref(self.s), log, fail)

build_TypeDef(self, log, fail) == [res |-> Ok(self), log |-> log]

\* an outcome whose error is replaced by a generic one on the way out
build_Result_generic(self, log, fail) ==
    IF self.k = "Ok" THEN build(self.v, log, fail)
    ELSE [res |-> Err(EngineError), log |-> log]

\* self.and_then(|ty| ty.build())
build_Result(self, log, fail) ==
    IF self.k = "Ok" THEN build(self.v, log, fail) ELSE [res |-> self, log |-> log]

build_BooleanBuilder(self, log, fail) ==
    Allocate(log, fail, [fn |-> "booleanb", base |-> self.base])

build_IntegerBuilder(self, log, fail) ==
    Allocate(log, fail, [fn |-> "integerb", data |-> self.data, base |-> self.base])

build_FloatBuilder(self, log, fail) ==
    Allocate(log, fail, [fn |-> "floatb", data |-> self.data, base |-> self.base])

build_StringBuilder(self, log, fail) ==
    Allocate(log, fail, [fn |-> "stringb", data |-> self.data, base |-> self.base])

build_OptionalBuilder(self, log, fail) ==
    Allocate(log, fail, [fn |-> "optionalb", data |-> self.data, base |-> self.base])

build_ListBuilder(self, log, fail) ==
    Allocate(log, fail, [fn |-> "listb", data |-> self.data, base |-> self.base])

build_UnionBuilder(self, log, fail) ==
    Allocate(log, fail, [fn |-> "unionb", data |-> self.data, base |-> self.base])

build_EitherBuilder(self, log, fail) ==
    Allocate(log, fail, [fn |-> "eitherb", data |-> self.data, base |-> self.base])

build_StructBuilder(self, log, fail) ==
    Allocate(log, fail, [fn |-> "structb", data |-> self.data, base |-> self.base])

build_FuncBuilder(self, log, fail) ==
    Allocate(log, fail, [fn |-> "funcb", data |-> self.data])

build_RefBuilder(self, log, fail) ==
    Allocate(log, fail,
             [fn |-> "refb", name |-> self.name, attributes |-> self.attributes])

\* ------------------------------------------------------- runtimes/http.rs
\* wasm::runtimes::Effect and its Default
Read == [tag |-> "Read"]
Create(idempotent) == [tag |-> "Create", idempotent |-> idempotent]
Update(idempotent) == [tag |-> "Update", idempotent |-> idempotent]
Delete(idempotent) == [tag |-> "Delete", idempotent |-> idempotent]
EffectDefault == Read

RECURSIVE Concat(_)
\* collect::<String>() over an iterator of strings
Concat(ss) == IF ss = <<>> THEN "" ELSE Head(ss) \o Concat(Tail(ss))

\* HttpRequestBuilder setters
content_type(self, content) == [self EXCEPT !.content_type = Some(content)]

header_prefix(self, prefix) == [self EXCEPT !.header_prefix = Some(prefix)]

query_fields(self, fields) == [self EXCEPT !.header_prefix = Some(Concat(fields))]

effect(self, e) == [self EXCEPT !.effect = e]

\* HttpRuntime::new
HttpRuntime_new(endpoint, cert_secret, basic_auth_secret, log, fail) ==
    LET r == with_runtimes(log, fail,
                           [fn |-> "register_http_runtime",
                            data |-> [endpoint |-> endpoint,
                                      cert_secret |-> cert_secret,
                                      basic_auth_secret |-> basic_auth_secret]])
    IN  [res |-> IF r.res.ok THEN Ok([k |-> "HttpRuntime", id |-> r.res.id])
                 ELSE Err(r.res.err),
         log |-> r.log]

\* HttpRuntime::request: inp.build()? then out.build()?, the rest Default.
\* request_of takes the outcomes i and o of the two, request_out the outcome i
\* of the first.
request_of(self, method, i, o) ==
    IF o.res.k = "Ok"
    THEN [res |-> Ok([k |-> "HttpRequestBuilder",
                      runtime |-> self.id,
                      inp |-> i.res.v.id,
                      out |-> o.res.v.id,
                      method |-> method,
                      path |-> "",
                      content_type |-> None,
                      header_prefix |-> None,
                      query_fields |-> None,
                      effect |-> EffectDefault]),
          log |-> o.log]
    ELSE o

request_out(self, method, i, out, fail) ==
    IF i.res.k = "Ok" THEN request_of(self, method, i, build(out, i.log, fail))
    ELSE i

\* request that finalizes out before inp
request_out_first(self, method, inp, out, log, fail) ==
    LET o == build(out, log, fail)
        i == build(inp, o.log, fail)
    IN  IF o.res.k = "Err" THEN o
        ELSE IF i.res.k = "Err" THEN i
        ELSE [request_of(self, method, i, o) EXCEPT !.log = i.log]

request(self, method, inp, out, log, fail) ==
    request_out(self, method, build(inp, log, fail), out, fail)

\* Result::map(|r| r.effect(e))
MapEffect(r, e) ==
    IF r.res.k = "Ok" THEN [res |-> Ok(effect(r.res.v, e)), log |-> r.log] ELSE r

get(self, inp, out, log, fail) == request(self, "Get", inp, out, log, fail)

post(self, inp, out, log, fail) ==
    MapEffect(request(self, "Post", inp, out, log, fail), Create(FALSE))

\* put with the effect line of post pasted in
put_as_create(self, inp, out, log, fail) ==
    MapEffect(request(self, "Put", inp, out, log, fail), Create(FALSE))

put(self, inp, out, log, fail) ==
    MapEffect(request(self, "Put", inp, out, log, fail), Update(FALSE))

patch(self, inp, out, log, fail) ==
    MapEffect(request(self, "Patch", inp, out, log, fail), Update(FALSE))

delete(self, inp, out, log, fail) ==
    MapEffect(request(self, "Delete", inp, out, log, fail), Delete(FALSE))

\* impl TypeBuilder for HttpRequestBuilder: the materializer is registered
\* (m), then t::func(self.inp.build()?, self.out.build()?, mat_id)?.build().
\* inp and out are TypeIds; f is the outcome of t::func.
build_func(f, fail) ==
    IF f.res.k = "Ok" THEN build(f.res.v, f.log, fail) ELSE f

build_registered(self, m, fail) ==
    IF m.res.ok
    THEN LET i == build_TypeId(TypeId(self.inp), m.log, fail)
             o == build_TypeId(TypeId(self.out), i.log, fail)
         IN  build_func(func(i.res.v, o.res.v, m.res.id, o.log, fail), fail)
    ELSE Propagate(m)

build_HttpRequestBuilder(self, log, fail) ==
    build_registered(self,
        with_runtimes(log, fail,
            [fn |-> "http_request",
             base |-> [runtime |-> self.runtime, effect |-> self.effect],
             options |-> [method |-> self.method,
                          path |-> self.path,
                          content_type |-> self.content_type,
                          header_prefix |-> self.header_prefix,
                          query_fields |-> self.query_fields,
                          rename_fields |-> None,
                          body_fields |-> None,
                          auth_token_field |-> None]]),
        fail)

\* Trait dispatch on the static type of `self`.
build(self, log, fail) ==
    CASE self.k = "TypeId" -> build_TypeId(self, log, fail)
      [] self.k = "str" -> build_str(self, log, fail)
      [] self.k = "TypeDef" -> build_TypeDef(self, log, fail)
      [] self.k \in {"Ok", "Err"} -> build_Result(self, log, fail)
      [] self.k = "BooleanBuilder" -> build_BooleanBuilder(self, log, fail)
      [] self.k = "IntegerBuilder" -> build_IntegerBuilder(self, log, fail)
      [] self.k = "FloatBuilder" -> build_FloatBuilder(self, log, fail)
      [] self.k = "StringBuilder" -> build_StringBuilder(self, log, fail)
      [] self.k = "OptionalBuilder" -> build_OptionalBuilder(self, log, fail)
      [] self.k = "ListBuilder" -> build_ListBuilder(self, log, fail)
      [] self.k = "UnionBuilder" -> build_UnionBuilder(self, log, fail)
      [] self.k = "EitherBuilder" -> build_EitherBuilder(self, log, fail)
      [] self.k = "StructBuilder" -> build_StructBuilder(self, log, fail)
      [] self.k = "FuncBuilder" -> build_FuncBuilder(self, log, fail)
      [] self.k = "RefBuilder" -> build_RefBuilder(self, log, fail)
      [] self.k = "HttpRequestBuilder" -> build_HttpRequestBuilder(self, log, fail)

RECURSIVE Flat(_)
\* The value an outcome carries, through any nesting of Ok.
Flat(v) == IF v.k = "Ok" THEN Flat(v.v) ELSE v

\* ------------------------------------------------------------ caller inputs
Names == {"a", "b"}
RefNames == {"a"}
UserError == "UserError"
\* A hand-made identifier that no engine call of the session answers.
RawIds == {MaxCalls + 1}
MatIds == {0}

\* The most engine calls one operation can issue, and the answers to choose.
OpCalls == IF MaxVariants > 2 THEN MaxVariants ELSE 2
FailChoices == SUBSET ((Len(calls) + 1) .. (Len(calls) + OpCalls))
Fits(r) == Len(r.log) <= MaxCalls

IsBuildable(v) == Flat(v).k \notin {"Nil", "HttpRuntime"}

\* What a caller passes as a child: a pending builder, an outcome carrying an
\* error, or the value of the chain so far (a name, a raw handle, a builder,
\* a TypeDef or an outcome).
Children ==
    {integer, Err(UserError)}
    \cup (IF IsBuildable(cur) THEN {cur} ELSE {})

RECURSIVE HasRaw(_)
HasRaw(v) ==
    CASE v.k = "TypeId" -> TRUE
      [] v.k = "Ok" -> HasRaw(v.v)
      [] OTHER -> FALSE

AnyRaw(args) == \E i \in DOMAIN args : HasRaw(args[i])

SeqsUpTo(S, n) == UNION {[1..m -> S] : m \in 0..n}

\* --------------------------------------------------------------- the session
NoOp == [op |-> "none", self |-> Nil, args |-> <<>>, name |-> "",
         res |-> Nil, pre |-> <<>>]

Init ==
    /\ calls = <<>>
    /\ cur = Nil
    /\ kept = None
    /\ last = NoOp
    /\ hist = <<>>
    /\ raw = FALSE

Open == Len(calls) < MaxCalls

\* A session is one fluent chain: it starts from a value that costs no engine
\* call, and a constructor that takes several children continues the chain
\* when the chain's value is among them.
Fresh == cur = Nil
Uses(args) == Fresh \/ \E i \in DOMAIN args : args[i] = cur

\* The caller starts a chain from a value that costs no engine call.
Start(op, v) ==
    /\ Open /\ Fresh
    /\ cur' = v
    /\ last' = [op |-> op, self |-> Nil, args |-> <<>>, name |-> "",
                res |-> v, pre |-> calls]
    /\ hist' = <<>>
    /\ UNCHANGED <<calls, kept>>

\* The caller replaces the chain's value by the result r of an operation.
Step(op, self, args, name, r) ==
    /\ Fits(r)
    /\ calls' = r.log
    /\ cur' = r.res
    /\ last' = [op |-> op, self |-> self, args |-> args, name |-> name,
                res |-> r.res, pre |-> calls]
    /\ raw' = (raw \/ HasRaw(self) \/ AnyRaw(args))
    /\ UNCHANGED kept

OpBoolean == Start("boolean", boolean) /\ UNCHANGED raw
OpInteger == Start("integer", integer) /\ UNCHANGED raw
OpFloat == Start("float", float) /\ UNCHANGED raw
OpString == Start("string", string) /\ UNCHANGED raw

OpRef == \E n \in RefNames : Start("ref", ref(n)) /\ UNCHANGED raw

OpRefSet ==
    /\ Open
    /\ cur.k = "RefBuilder"
    /\ Len(cur.attributes) < MaxAttrs
    /\ cur' = ref_set(cur, "attr", "x")
    /\ last' = [op |-> "ref_set", self |-> cur, args |-> <<>>, name |-> "",
                res |-> cur', pre |-> calls]
    /\ UNCHANGED <<calls, kept, hist, raw>>

OpStr == \E n \in RefNames : Start("str", Str(n)) /\ UNCHANGED raw

OpTypeId == \E n \in RawIds : Start("TypeId", TypeId(n)) /\ raw' = TRUE

OpStruct == Start("struct", struct) /\ UNCHANGED raw

\* The caller holds an outcome that carries an error of its own making.
OpErr == Start("Err", Err(UserError)) /\ UNCHANGED raw

\* The `?` operator on an Ok outcome: the chain goes on with the value.
OpTry ==
    /\ Open
    /\ cur.k = "Ok"
    /\ cur' = cur.v
    /\ last' = [op |-> "try", self |-> cur, args |-> <<>>, name |-> "",
                res |-> cur.v, pre |-> calls]
    /\ UNCHANGED <<calls, kept, hist, raw>>

OpBuild ==
    /\ Open
    /\ IsBuildable(cur)
    /\ \E fail \in FailChoices :
          Step("build", cur, <<>>, "", build(cur, calls, fail))
    /\ UNCHANGED hist

OpOptional ==
    /\ Open
    /\ IsBuildable(cur)
    /\ \E fail \in FailChoices :
          Step("optional", Nil, <<cur>>, "", optional(cur, calls, fail))
    /\ hist' = <<>>

OpList ==
    /\ Open
    /\ IsBuildable(cur)
    /\ \E fail \in FailChoices :
          Step("list", Nil, <<cur>>, "", list(cur, calls, fail))
    /\ hist' = <<>>

OpUnion ==
    /\ Open
    /\ \E variants \in SeqsUpTo(Children, MaxVariants), fail \in FailChoices :
          /\ Uses(variants)
          /\ Step("union", Nil, variants, "", union(variants, calls, fail))
    /\ hist' = <<>>

OpEither ==
    /\ Open
    /\ \E variants \in SeqsUpTo(Children, MaxVariants), fail \in FailChoices :
          /\ Uses(variants)
          /\ Step("either", Nil, variants, "", either(variants, calls, fail))
    /\ hist' = <<>>

OpAdd ==
    /\ Open
    /\ cur.k = "UnionBuilder"
    /\ Len(cur.data.variants) < MaxVariants
    /\ \E ty \in Children \ {cur}, fail \in FailChoices :
          Step("add", cur, <<ty>>, "", add(cur, ty, calls, fail))
    /\ hist' = <<>>

\* hist keeps the (name, handle) pairs of the prop calls that succeeded: h is
\* the outcome of finalizing the child.
Pushed(name, h) ==
    IF h.res.ok THEN Append(hist, [name |-> name, id |-> h.res.id]) ELSE hist

OpProp ==
    /\ Open
    /\ cur.k = "StructBuilder"
    /\ Len(cur.data.props) < MaxProps
    /\ \E name \in Names, ty \in Children \ {cur}, fail \in FailChoices :
          /\ Step("prop", cur, <<ty>>, name, prop(cur, name, ty, calls, fail))
          /\ hist' = Pushed(name, into_id(ty, calls, fail))

OpFunc ==
    /\ Open
    /\ \E inp \in Children, out \in Children, mat \in MatIds,
          fail \in FailChoices :
          /\ Uses(<<inp, out>>)
          /\ Step("func", Nil, <<inp, out>>, "", func(inp, out, mat, calls, fail))
    /\ hist' = <<>>

\* ------------------------------------------------------------- transforms
Policies == {<<"admin_only">>}
Values == {"v"}

\* hist keeps, for each transform that succeeded, the handle it was applied
\* to and the handle it returned.  A TypeDef receiver is Copy: the caller
\* still holds it (kept) after the call.
Transform(op, name, r) ==
    /\ Open
    /\ IsBuildable(cur)
    /\ Fits(r)
    /\ calls' = r.log
    /\ cur' = r.res
    /\ last' = [op |-> op, self |-> cur, args |-> <<>>, name |-> name,
                res |-> r.res, pre |-> calls]
    /\ hist' = IF r.res.k = "Ok"
               THEN Append(hist, [arg |-> r.log[Len(r.log)].req.id,
                                  ret |-> r.res.v.id])
               ELSE hist
    /\ kept' = IF cur.k = "TypeDef" THEN Some(cur) ELSE kept
    /\ raw' = (raw \/ HasRaw(cur))

OpRename ==
    \E name \in Names, fail \in FailChoices :
        Transform("rename", name,
                  IF cur.k = "TypeDef"
                  THEN TypeDef_rename(cur, name, calls, fail)
                  ELSE rename(cur, name, calls, fail))

OpWithPolicy ==
    \E chain \in Policies, fail \in FailChoices :
        Transform("with_policy", "",
                  IF cur.k = "TypeDef"
                  THEN TypeDef_with_policy(cur, chain, calls, fail)
                  ELSE with_policy(cur, chain, calls, fail))

OpSet ==
    \E value \in Values, fail \in FailChoices :
        Transform("set", value,
                  IF cur.k = "TypeDef"
                  THEN TypeDef_set(cur, value, calls, fail)
                  ELSE set(cur, value, calls, fail))

OpInject ==
    \E value \in Values, fail \in FailChoices :
        Transform("inject", value,
                  IF cur.k = "TypeDef"
                  THEN TypeDef_inject(cur, value, calls, fail)
                  ELSE inject(cur, value, calls, fail))

OpFromContext ==
    \E value \in Values, fail \in FailChoices :
        Transform("from_context", value,
                  IF cur.k = "TypeDef"
                  THEN TypeDef_from_context(cur, value, calls, fail)
                  ELSE from_context(cur, value, calls, fail))

OpFromSecret ==
    \E value \in Values, fail \in FailChoices :
        Transform("from_secret", value,
                  IF cur.k = "TypeDef"
                  THEN TypeDef_from_secret(cur, value, calls, fail)
                  ELSE from_secret(cur, value, calls, fail))

OpFromRandom ==
    \E fail \in FailChoices :
        Transform("from_random", "",
                  IF cur.k = "TypeDef"
                  THEN TypeDef_from_random(cur, calls, fail)
                  ELSE from_random(cur, calls, fail))

\* ------------------------------------------------------------ HTTP routes
Endpoints == {"http://api"}
ContentTypes == {"application/json"}
Prefixes == {"x-"}
FieldLists == {<<"a">>, <<"a", "b">>}
Effects == {Read, Update(TRUE)}
\* inp and out of a route have one type T: here Result<IntegerBuilder>.
RouteArgs == {Ok(integer), Err(UserError)}

OpenHttp == Len(calls) < MaxHttpCalls

StepHttp(op, self, args, r) ==
    /\ Len(r.log) <= MaxHttpCalls
    /\ calls' = r.log
    /\ cur' = r.res
    /\ last' = [op |-> op, self |-> self, args |-> args, name |-> "",
                res |-> r.res, pre |-> calls]
    /\ UNCHANGED <<kept, raw>>

OpNewRuntime ==
    /\ OpenHttp
    /\ cur = Nil
    /\ \E endpoint \in Endpoints, fail \in FailChoices :
          StepHttp("new", Nil, <<>>,
                   HttpRuntime_new(endpoint, None, None, calls, fail))
    /\ hist' = <<>>

\* The `?` operator on the Ok outcome of HttpRuntime::new or of a route.
OpTryHttp ==
    /\ OpenHttp
    /\ cur.k = "Ok"
    /\ cur.v.k \in {"HttpRuntime", "HttpRequestBuilder"}
    /\ cur' = cur.v
    /\ last' = [op |-> "try", self |-> cur, args |-> <<>>, name |-> "",
                res |-> cur.v, pre |-> calls]
    /\ UNCHANGED <<calls, kept, hist, raw>>

Route(op, r) ==
    /\ OpenHttp
    /\ cur.k = "HttpRuntime"
    /\ StepHttp(op, cur, <<>>, r)
    /\ hist' = <<>>

OpGet ==
    \E inp \in RouteArgs, out \in RouteArgs, fail \in FailChoices :
        Route("get", get(cur, inp, out, calls, fail))

OpPost ==
    \E inp \in RouteArgs, out \in RouteArgs, fail \in FailChoices :
        Route("post", post(cur, inp, out, calls, fail))

OpPut ==
    \E inp \in RouteArgs, out \in RouteArgs, fail \in FailChoices :
        Route("put", put(cur, inp, out, calls, fail))

OpPatch ==
    \E inp \in RouteArgs, out \in RouteArgs, fail \in FailChoices :
        Route("patch", patch(cur, inp, out, calls, fail))

OpDelete ==
    \E inp \in RouteArgs, out \in RouteArgs, fail \in FailChoices :
        Route("delete", delete(cur, inp, out, calls, fail))

\* hist keeps the setter calls the caller made on the route builder.
Setter(entry, b) ==
    /\ OpenHttp
    /\ cur.k = "HttpRequestBuilder"
    /\ Len(hist) < MaxSetters
    /\ cur' = b
    /\ hist' = Append(hist, entry)
    /\ last' = [op |-> entry.m, self |-> cur, args |-> <<>>, name |-> "",
                res |-> b, pre |-> calls]
    /\ UNCHANGED <<calls, kept, raw>>

OpContentType ==
    \E content \in ContentTypes :
        Setter([m |-> "content_type", content |-> content],
               content_type(cur, content))

OpHeaderPrefix ==
    \E prefix \in Prefixes :
        Setter([m |-> "header_prefix", prefix |-> prefix],
               header_prefix(cur, prefix))

OpQueryFields ==
    \E fields \in FieldLists :
        Setter([m |-> "query_fields", fields |-> fields],
               query_fields(cur, fields))

OpEffect ==
    \E e \in Effects :
        Setter([m |-> "effect", effect |-> e], effect(cur, e))

OpBuildRoute ==
    /\ OpenHttp
    /\ cur.k = "HttpRequestBuilder"
    /\ \E fail \in FailChoices :
          StepHttp("build_route", cur, <<>>, build(cur, calls, fail))
    /\ UNCHANGED hist

NextHttp ==
    \/ OpNewRuntime \/ OpTryHttp
    \/ OpGet \/ OpPost \/ OpPut \/ OpPatch \/ OpDelete
    \/ OpContentType \/ OpHeaderPrefix \/ OpQueryFields \/ OpEffect
    \/ OpBuildRoute

SpecHttp == Init /\ [][NextHttp]_vars

\* Sessions that build and compose types: every kind of buildable value is
\* finalized, children before parents.
Next ==
    \/ OpBoolean \/ OpInteger \/ OpFloat \/ OpString
    \/ OpRef \/ OpRefSet \/ OpStr \/ OpTypeId \/ OpStruct \/ OpErr
    \/ OpTry \/ OpBuild
    \/ OpOptional \/ OpList \/ OpUnion \/ OpEither \/ OpAdd \/ OpProp \/ OpFunc

Spec == Init /\ [][Next]_vars

\* Sessions that chain transforms on a handle or on a pending builder.
NextTransform ==
    \/ OpInteger \/ OpStr \/ OpTypeId
    \/ OpTry \/ OpBuild
    \/ OpRename \/ OpWithPolicy \/ OpSet \/ OpInject
    \/ OpFromContext \/ OpFromSecret \/ OpFromRandom

SpecTransform == Init /\ [][NextTransform]_vars

\* ---------------------------------------------------------- base metadata
\* The builders that implement BaseBuilder.
BaseBuilders ==
    {"BooleanBuilder", "IntegerBuilder", "FloatBuilder", "StringBuilder",
     "OptionalBuilder", "ListBuilder", "UnionBuilder", "EitherBuilder",
     "StructBuilder"}
BaseNames == {"a", "b"}
Keys == {"k"}
ConfigValues == {[t |-> "str", s |-> "v"], [t |-> "bool", b |-> TRUE]}
Mins == {0}

\* hist keeps the named / id / config calls the caller made on the builder.
BaseCall(entry, b) ==
    /\ Open
    /\ cur.k \in BaseBuilders
    /\ Len(hist) < MaxBaseCalls
    /\ cur' = b
    /\ hist' = Append(hist, entry)
    /\ last' = [op |-> entry.m, self |-> cur, args |-> <<>>, name |-> "",
                res |-> b, pre |-> calls]
    /\ UNCHANGED <<calls, kept, raw>>

OpNamed ==
    \E name \in BaseNames :
        BaseCall([m |-> "named", name |-> name], named(cur, name))

OpId == BaseCall([m |-> "id"], id(cur))

OpConfig ==
    \E key \in Keys, value \in ConfigValues :
        BaseCall([m |-> "config", key |-> key, value |-> value],
                 config(cur, key, value))

\* A type-specific constraint set on an integer builder.
OpMin ==
    /\ Open
    /\ cur.k = "IntegerBuilder"
    /\ cur.data.min = None
    /\ \E n \in Mins :
          /\ cur' = min(cur, n)
          /\ last' = [op |-> "min", self |-> cur, args |-> <<>>, name |-> "",
                      res |-> cur', pre |-> calls]
    /\ UNCHANGED <<calls, kept, hist, raw>>

\* Sessions that attach base metadata to one scalar or composite builder and
\* finalize it.
NextBase ==
    \/ OpBoolean \/ OpInteger \/ OpFloat \/ OpString \/ OpStruct
    \/ OpMin
    \/ OpNamed \/ OpId \/ OpConfig
    \/ OpBuild

SpecBase == Init /\ [][NextBase]_vars

\* =============================================================== properties
\* The engine calls the last operation issued.
New == SubSeq(calls, Len(last.pre) + 1, Len(calls))

ScalarKinds == {"BooleanBuilder", "IntegerBuilder", "FloatBuilder", "StringBuilder"}
CompositeKinds ==
    {"OptionalBuilder", "ListBuilder", "UnionBuilder", "EitherBuilder", "StructBuilder"}
PendingKinds == ScalarKinds \cup CompositeKinds \cup {"RefBuilder", "FuncBuilder"}
IsPending(v) == v.k \in PendingKinds

\* The engine entry point that allocates a pending builder of each kind.
FnOf(v) ==
    CASE v.k = "BooleanBuilder" -> "booleanb"
      [] v.k = "IntegerBuilder" -> "integerb"
      [] v.k = "FloatBuilder" -> "floatb"
      [] v.k = "StringBuilder" -> "stringb"
      [] v.k = "OptionalBuilder" -> "optionalb"
      [] v.k = "ListBuilder" -> "listb"
      [] v.k = "UnionBuilder" -> "unionb"
      [] v.k = "EitherBuilder" -> "eitherb"
      [] v.k = "StructBuilder" -> "structb"
      [] v.k = "FuncBuilder" -> "funcb"
      [] v.k \in {"RefBuilder", "str"} -> "refb"

\* The outcome a caller sees for an engine answer.
Seen(ans) == IF ans.ok THEN Ok(TypeDef(ans.id)) ELSE Err(ans.err)

\* The arguments of the caller's calls of setter m on the route, in order.
Calls(m) == SelectSeq(hist, LAMBDA h : h.m = m)

\* The effect each verb stands for when the caller set none.
VerbDefault(method) ==
    CASE method = "Get" -> Read
      [] method = "Post" -> Create(FALSE)
      [] method \in {"Put", "Patch"} -> Update(FALSE)
      [] method = "Delete" -> Delete(FALSE)

\* C1: the effect passed to the materializer registration at build() is the
\* verb default (GET Read, POST Create(non-idempotent), PUT and PATCH
\* Update(non-idempotent), DELETE Delete(non-idempotent)) when the caller
\* never called effect() on the builder, and otherwise the argument of the
\* caller's last effect() call.
C1_EffectAtBuild ==
    last.op = "build_route" =>
        /\ Len(New) >= 1
        /\ New[1].req.fn = "http_request"
        /\ New[1].req.options.method = last.self.method
        /\ New[1].req.base.effect =
              IF Calls("effect") = <<>> THEN VerbDefault(last.self.method)
              ELSE Calls("effect")[Len(Calls("effect"))].effect

\* A PUT route whose effect the caller never set was registered.
C1_Witness ==
    /\ last.op = "build_route"
    /\ last.self.method = "Put"
    /\ Calls("effect") = <<>>
    /\ New[1].ans.ok

\* C2: header-prefix and query-fields are independent fields.  The
\* query_fields value sent at build() is the argument of the last
\* query_fields call (absent if there was none) and the header_prefix value
\* sent is the argument of the last header_prefix call (absent if there was
\* none).
C2_IndependentFields ==
    last.op = "build_route" =>
        /\ New[1].req.options.query_fields =
              IF Calls("query_fields") = <<>> THEN None
              ELSE Some(Calls("query_fields")[Len(Calls("query_fields"))].fields)
        /\ New[1].req.options.header_prefix =
              IF Calls("header_prefix") = <<>> THEN None
              ELSE Some(Calls("header_prefix")[Len(Calls("header_prefix"))].prefix)

\* The call numbers, counted from the start of the session, that the engine
\* rejected among the calls of the last operation.
Rejected == {Len(last.pre) + i : i \in {i \in DOMAIN New : ~New[i].ans.ok}}

\* C3: calls across the engine boundary per finalization.  build() on a
\* pending scalar, composite, reference or function builder issues exactly
\* one engine call, the allocation of its kind carrying the builder's fields,
\* and returns what the engine answered; build() on a raw handle or on an
\* allocated TypeDef issues no call and returns the same handle; build() on a
\* textual name issues exactly one reference allocation carrying that name
\* and an empty attribute list.
C3_EngineCallsPerBuild ==
    last.op = "build" =>
        /\ IsPending(last.self)
              => /\ Len(New) = 1
                 /\ New[1].req.fn = FnOf(last.self)
                 /\ \A f \in DOMAIN last.self \ {"k"} :
                        f \in DOMAIN New[1].req /\ New[1].req[f] = last.self[f]
                 /\ last.res = Seen(New[1].ans)
        /\ last.self.k \in {"TypeId", "TypeDef"}
              => /\ New = <<>>
                 /\ last.res = Ok(TypeDef(last.self.id))
        /\ last.self.k = "str"
              => /\ Len(New) = 1
                 /\ New[1].req = [fn |-> "refb", name |-> last.self.s,
                                  attributes |-> <<>>]
                 /\ last.res = Seen(New[1].ans)

\* A textual name was finalized: one reference allocation, answered.
C3_Witness ==
    /\ last.op = "build"
    /\ last.self.k = "str"
    /\ Len(New) = 1
    /\ New[1].ans.ok

\* C4: outcome coercion.  build() on an outcome carrying an error returns
\* that same error and issues no engine call; build() on an outcome carrying
\* a value v issues the calls and returns the result of build() on v itself
\* (from the same log, against the same engine answers).
C4_OutcomeCoercion ==
    last.op = "build" =>
        /\ last.self.k = "Err" => (last.res = last.self /\ calls = last.pre)
        /\ last.self.k = "Ok"
              => LET direct == build(last.self.v, last.pre, Rejected)
                 IN  calls = direct.log /\ last.res = direct.res

\* An outcome carrying a pending builder was finalized: one engine call.
C4_Witness ==
    /\ last.op = "build"
    /\ last.self.k = "Ok"
    /\ IsPending(last.self.v)
    /\ Len(New) = 1

Transforms ==
    {"rename", "with_policy", "set", "inject", "from_context", "from_secret",
     "from_random"}

\* The engine entry point of each transform.
WrapFn(op) ==
    CASE op = "rename" -> "rename_type"
      [] op = "with_policy" -> "with_policy"
      [] OTHER -> "with_injection"

\* C5: transforms.  Applied to an allocated handle h, a transform issues
\* exactly one engine call whose handle argument is h and returns the handle
\* the engine answered, while the caller's copy of the prior TypeDef still
\* carries h.  In a chain of n transforms the k-th call takes the handle the
\* (k-1)-th returned.  Applied to a pending builder, a transform first issues
\* the builder's allocation call and then the wrapping call on the handle
\* that allocation answered.
C5_TransformChain ==
    /\ (last.op \in Transforms /\ last.self.k = "TypeDef")
          => /\ Len(New) = 1
             /\ New[1].req.fn = WrapFn(last.op)
             /\ New[1].req.id = last.self.id
             /\ last.res = Seen(New[1].ans)
             /\ kept = Some(TypeDef(New[1].req.id))
    /\ (last.op \in Transforms /\ IsPending(last.self))
          => /\ Len(New) >= 1
             /\ New[1].req.fn = FnOf(last.self)
             /\ IF New[1].ans.ok
                THEN /\ Len(New) = 2
                     /\ New[2].req.fn = WrapFn(last.op)
                     /\ New[2].req.id = New[1].ans.id
                     /\ last.res = Seen(New[2].ans)
                ELSE Len(New) = 1 /\ last.res = Err(New[1].ans.err)
    /\ (last.op \in Transforms /\ last.res.k = "Ok")
          => LET n == Len(hist)
                 at(k) == calls[Len(calls) - n + k]
             IN  /\ n <= Len(calls)
                 /\ \A k \in 1..n :
                       /\ at(k).req.fn \in {"rename_type", "with_policy", "with_injection"}
                       /\ at(k).ans.ok
                       /\ k > 1 => at(k).req.id = at(k - 1).ans.id
                 /\ last.res.v.id = at(n).ans.id

\* A pending builder was allocated and then transformed twice; each call was
\* answered, and the second transform ran on the caller's TypeDef.
C5_Witness ==
    /\ last.op \in Transforms
    /\ last.res.k = "Ok"
    /\ last.self.k = "TypeDef"
    /\ Len(hist) = 2
    /\ Len(calls) = 3
    /\ calls[1].req.fn = "integerb"

\* The child handles in the payload of an allocation request.
ChildIds(req) ==
    CASE req.fn \in {"optionalb", "listb"} -> {req.data.of}
      [] req.fn \in {"unionb", "eitherb"} ->
            {req.data.variants[i] : i \in DOMAIN req.data.variants}
      [] req.fn = "structb" -> {req.data.props[i][2] : i \in DOMAIN req.data.props}
      [] req.fn = "funcb" -> {req.data.inp, req.data.out}
      [] OTHER -> {}

\* The handles the engine answered before call number i.
Answered(i) == {calls[j].ans.id : j \in {j \in 1..(i - 1) : calls[j].ans.ok}}

\* C6: children before parents.  In a session where the caller never supplied
\* a hand-made identifier, every child handle in the payload of an optional,
\* list, union, either, struct or function allocation call was answered by an
\* earlier, successful engine call of the session.
C6_ChildrenBeforeParents ==
    ~raw => \A i \in DOMAIN calls : ChildIds(calls[i].req) \subseteq Answered(i)

\* A function node was allocated over two children that were finalized first.
C6_Witness ==
    /\ ~raw
    /\ Len(calls) = 3
    /\ calls[3].req.fn = "funcb"
    /\ calls[3].ans.ok
    /\ calls[3].req.data.inp # calls[3].req.data.out

IsEmptyVariants(v) ==
    v.k \in {"UnionBuilder", "EitherBuilder"} /\ v.data.variants = <<>>

\* C7 as stated: a union or either with zero variants is rejected locally;
\* finalizing it returns an error and issues no engine call.
C7_EmptyUnionRejected ==
    (last.op = "build" /\ IsEmptyVariants(Flat(last.self)))
        => (last.res.k = "Err" /\ calls = last.pre)

\* C7 amended: union and either accept an empty variants list.  The
\* constructor returns a builder with no variants and issues no engine call;
\* finalizing that builder issues exactly one allocation call (unionb or
\* eitherb) carrying the empty list, and returns what the engine answered.
C7_EmptyUnionAllocated ==
    /\ (last.op \in {"union", "either"} /\ last.args = <<>>)
          => /\ last.res.k = "Ok"
             /\ last.res.v.k = (IF last.op = "union" THEN "UnionBuilder"
                                ELSE "EitherBuilder")
             /\ last.res.v.data.variants = <<>>
             /\ calls = last.pre
    /\ (last.op = "build" /\ IsEmptyVariants(Flat(last.self)))
          => /\ Len(New) = 1
             /\ New[1].req.fn = FnOf(Flat(last.self))
             /\ New[1].req.data.variants = <<>>
             /\ last.res = Seen(New[1].ans)

\* An empty union was finalized and the engine was asked to allocate it.
C7_Witness ==
    /\ last.op = "build"
    /\ IsEmptyVariants(Flat(last.self))
    /\ Flat(last.self).k = "UnionBuilder"
    /\ Len(New) = 1

\* C8 as stated: list(child) with a pending child fails locally and issues no
\* engine call.
C8_ListOfPendingRejected ==
    (last.op = "list" /\ IsPending(Flat(last.args[1])))
        => (last.res.k = "Err" /\ calls = last.pre)

\* C8 amended: list(child) with a pending child finalizes the child at once.
\* It issues exactly one engine call, the child's allocation call, and no
\* list allocation call; it returns a list builder over the handle the engine
\* answered, or the engine's error when that call failed.
C8_ListFinalizesChild ==
    (last.op = "list" /\ IsPending(Flat(last.args[1])))
        => /\ Len(New) = 1
           /\ New[1].req.fn = FnOf(Flat(last.args[1]))
           /\ New[1].ans.ok
                 => /\ last.res.k = "Ok"
                    /\ last.res.v.k = "ListBuilder"
                    /\ last.res.v.data.of = New[1].ans.id
           /\ ~New[1].ans.ok => last.res = Err(New[1].ans.err)

\* list(integer()) answered a list builder after one engine call.
C8_Witness ==
    /\ last.op = "list"
    /\ last.args[1].k = "IntegerBuilder"
    /\ last.res.k = "Ok"
    /\ Len(New) = 1

\* The (name, handle) pairs of the successful prop calls, in call order.
Pairs == [i \in DOMAIN hist |-> <<hist[i].name, hist[i].id>>]

\* Whether finalizing child v, which issued the calls `new`, succeeded.
ChildOk(v, new) ==
    /\ Flat(v).k # "Err"
    /\ \A i \in DOMAIN new : new[i].ans.ok

\* C9: no prop call is rejected locally (it fails only when finalizing its
\* child fails), and the props list sent in the struct allocation call is the
\* sequence of (name, handle of child) pairs in call order, duplicates kept.
C9_PropsInCallOrder ==
    /\ last.op = "prop" => (last.res.k = "Ok" <=> ChildOk(last.args[1], New))
    /\ (last.op = "prop" /\ last.res.k = "Ok")
          => last.res.v.data.props = Pairs
    /\ (last.op = "build" /\ Flat(last.self).k = "StructBuilder")
          => /\ Len(New) = 1
             /\ New[1].req.fn = "structb"
             /\ New[1].req.data.props = Pairs

\* A struct with the same property name twice was sent to the engine.
C9_Witness ==
    /\ last.op = "build"
    /\ Flat(last.self).k = "StructBuilder"
    /\ Len(hist) = 2
    /\ hist[1].name = hist[2].name
    /\ hist[1].id # hist[2].id
    /\ New[1].ans.ok

RECURSIVE Aborted(_, _, _)
\* Children `args` were to be finalized in order, the calls `new` were
\* issued and the constructor returned `res`: the first child that fails
\* decides `res`, and nothing is issued after it.
Aborted(args, new, res) ==
    IF args = <<>> THEN FALSE
    ELSE LET c == Flat(Head(args))
         IN  CASE c.k = "Err" -> new = <<>> /\ res = c
               [] c.k \in {"TypeId", "TypeDef"} -> Aborted(Tail(args), new, res)
               [] OTHER ->
                    /\ new # <<>>
                    /\ Head(new).req.fn = FnOf(c)
                    /\ IF Head(new).ans.ok
                       THEN Aborted(Tail(args), Tail(new), res)
                       ELSE Tail(new) = <<>> /\ res = Err(Head(new).ans.err)

Constructors == {"func", "union", "either", "optional", "list", "prop", "add"}

\* C10: first failure aborts the chain without rollback.  When a constructor
\* returns an error, the error is that of the first child whose finalization
\* failed, no call was issued after the failing one (later children are not
\* finalized, the parent is not allocated), and the calls issued before it
\* are still in the log, unaltered.
C10_FirstFailureAborts ==
    /\ SubSeq(calls, 1, Len(last.pre)) = last.pre
    /\ (last.op \in Constructors /\ last.res.k = "Err")
          => Aborted(last.args, New, last.res)

\* func(inp, out, mat): finalizing inp failed at the engine after an earlier
\* node had been allocated; out, a pending builder, was not finalized.
C10_Witness ==
    /\ last.op = "func"
    /\ last.res.k = "Err"
    /\ Len(last.pre) >= 1
    /\ last.pre[1].ans.ok
    /\ Len(New) = 1
    /\ ~New[1].ans.ok
    /\ IsPending(Flat(last.args[1]))
    /\ IsPending(Flat(last.args[2]))

Verbs == {"get", "post", "put", "patch", "delete"}

\* The positions of the log that hold a call to the engine entry point fn.
At(fn) == {i \in DOMAIN calls : calls[i].req.fn = fn}

\* C11: order of the engine calls of an HTTP route.  The materializer is
\* registered only after the input and then the output were finalized, both
\* answered; the function node is allocated only right after a registration
\* that was answered, and carries the materializer id of that answer and the
\* input and output handles answered earlier, input first.  A route whose
\* input or output finalization failed is an error and no materializer is
\* registered; a build() whose registration failed returns that error and
\* allocates no function node.
C11_RouteCallOrder ==
    /\ \A m \in At("http_request") :
          /\ m >= 3
          /\ calls[m - 2].req.fn = "integerb" /\ calls[m - 2].ans.ok
          /\ calls[m - 1].req.fn = "integerb" /\ calls[m - 1].ans.ok
    /\ \A f \in At("funcb") :
          /\ f >= 4
          /\ calls[f - 1].req.fn = "http_request" /\ calls[f - 1].ans.ok
          /\ calls[f].req.data.mat = calls[f - 1].ans.id
          /\ calls[f].req.data.inp = calls[f - 3].ans.id
          /\ calls[f].req.data.out = calls[f - 2].ans.id
    /\ (last.op \in Verbs /\ \E i \in DOMAIN New : ~New[i].ans.ok)
          => /\ last.res = Err(New[Len(New)].ans.err)
             /\ At("http_request") = {}
    /\ last.op \in Verbs
          => \A i \in DOMAIN New :
                 /\ New[i].req.fn = "integerb"
                 /\ i < Len(New) => New[i].ans.ok
    /\ last.op = "build_route"
          => /\ Len(New) >= 1
             /\ New[1].req.fn = "http_request"
             /\ IF New[1].ans.ok
                THEN /\ Len(New) = 2
                     /\ New[2].req.fn = "funcb"
                     /\ last.res = Seen(New[2].ans)
                ELSE Len(New) = 1 /\ last.res = Err(New[1].ans.err)

\* A route was built: input, output, registration and function allocation
\* were all answered, in that order, after the runtime's registration.
C11_Witness ==
    /\ last.op = "build_route"
    /\ Len(calls) = 5
    /\ Len(New) = 2
    /\ New[2].req.fn = "funcb"
    /\ New[2].ans.ok

\* The (key, serialized value) pairs of the caller's config calls, in order.
ConfigPairs ==
    [i \in DOMAIN Calls("config") |->
        <<Calls("config")[i].key, json_stringify(Calls("config")[i].value)>>]

\* C12: base metadata after any sequence of named(n), id() and config(k, v)
\* calls on a scalar or composite builder.  The display name is the argument
\* of the last named call (absent if none), the identity flag is true iff
\* id() was called at least once, and the runtime configuration holds the
\* (key, serialized value) pairs of all config calls in call order, duplicate
\* keys kept (absent if none).  None of these calls issues an engine call or
\* changes the builder's kind or its type-specific constraint fields.
C12_BaseMetadata ==
    /\ cur.k \in BaseBuilders
          => /\ cur.base.name =
                   IF Calls("named") = <<>> THEN None
                   ELSE Some(Calls("named")[Len(Calls("named"))].name)
             /\ cur.base.as_id = (Calls("id") # <<>>)
             /\ cur.base.runtime_config =
                   IF Calls("config") = <<>> THEN None ELSE Some(ConfigPairs)
             /\ DOMAIN cur.base = {"name", "as_id", "runtime_config"}
    /\ last.op \in {"named", "id", "config"}
          => /\ calls = last.pre
             /\ last.res.k = last.self.k
             /\ "data" \in DOMAIN last.self => last.res.data = last.self.data

\* An integer builder with a minimum was given two config pairs of the same
\* key and then marked as identity.
C12_Witness ==
    /\ last.op = "id"
    /\ cur.k = "IntegerBuilder"
    /\ cur.data.min # None
    /\ Len(Calls("config")) = 2
    /\ Calls("config")[1].key = Calls("config")[2].key
    /\ Calls("config")[1].value # Calls("config")[2].value

====
